---- MODULE Spec2Model ----
(***************************************************************************)
(* Model of the Logic World save codec (src/src/main.rs): the Parser, the  *)
(* Writer, the CompMap type dictionary and the SaveFile allocators.        *)
(*                                                                         *)
(* A byte is a number in 0..255 and a stream is a sequence of bytes.  A    *)
(* Rust string is modelled by its UTF-8 bytes, an f32 by its bit pattern   *)
(* written most significant byte first, an i32/u16/u32 by its number.      *)
(* The checker's integers are 32-bit signed, so the u32 fields (address,   *)
(* parent, peg component, color_mode) are explored below 2^31 only; i32    *)
(* and u16 keep their full width.                                          *)
(***************************************************************************)
EXTENDS Integers, Sequences, FiniteSets, TLC

VARIABLES
    file,      \* the bytes at SAVE_LOCATION
    stage,     \* where the program is: "start", "loaded", "written", "failed", "panicked"
    save,      \* the SaveFile in memory (NoSave before parse_save returns one)
    err,       \* the error parse_save returned, or the abort that ended the run
    decoded,   \* the SaveFile as parse_save last returned it
    written,   \* the SaveFile as last handed to Writer::write
    ids,       \* state ids returned by get_free_state_id since the last parse_save / clear_out
    addrs,     \* addresses returned by get_free_address since the last parse_save / clear_out
    cleared,   \* TRUE once clear_out ran on the current SaveFile
    before,    \* the SaveFile as it was before the last mutating call
    last,      \* the last operation: [op, arg]
    runs,      \* number of Writer::write calls so far
    image      \* the sections the initial file was laid out from

vars == <<file, stage, save, err, decoded, written, ids, addrs, cleared, before,
          last, runs, image>>

-----------------------------------------------------------------------------
(* Integer widths *)

I32_MAX == 2147483647
U16_MAX == 65535

I32_MIN == -I32_MAX - 1

Max(a, b) == IF a >= b THEN a ELSE b

\* `let x = e;` followed by the rest of a function body: Bind([x \in {e} |-> body])
\* is body with x bound to the value of e, which is computed once
Bind(f) == f[CHOOSE x \in DOMAIN f : TRUE]

SetMax(S) == CHOOSE m \in S : \A x \in S : x <= m

-----------------------------------------------------------------------------
(* Little-endian conversions: {i32,u32,u16,f32}::from_le_bytes / to_le_bytes *)

i32_from_le_bytes(b) ==
    IF b[4] < 128
    THEN b[1] + 256 * b[2] + 65536 * b[3] + 16777216 * b[4]
    ELSE (b[1] + 256 * b[2] + 65536 * b[3] + 16777216 * (b[4] - 128)) + I32_MIN

i32_to_le_bytes(v) ==
    LET u == IF v < 0 THEN v - I32_MIN ELSE v
    IN  << u % 256, (u \div 256) % 256, (u \div 65536) % 256,
           (u \div 16777216) + (IF v < 0 THEN 128 ELSE 0) >>

u32_from_le_bytes(b) == b[1] + 256 * b[2] + 65536 * b[3] + 16777216 * b[4]

u32_to_le_bytes(v) ==
    << v % 256, (v \div 256) % 256, (v \div 65536) % 256, v \div 16777216 >>

u16_from_le_bytes(b) == b[1] + 256 * b[2]

u16_to_le_bytes(v) == << v % 256, v \div 256 >>

\* an f32 is kept as its bit pattern, sign and exponent byte first
f32_from_le_bytes(b) == << b[4], b[3], b[2], b[1] >>

f32_to_le_bytes(f) == << f[4], f[3], f[2], f[1] >>

-----------------------------------------------------------------------------
(* String::from_utf8: well-formed UTF-8 byte sequences (Unicode table 3-7) *)

Cont(b) == b >= 128 /\ b <= 191

RECURSIVE from_utf8_ok(_)
from_utf8_ok(s) ==
    IF s = <<>> THEN TRUE
    ELSE LET a == s[1]
             n == Len(s)
             rest(k) == from_utf8_ok(SubSeq(s, k + 1, n))
         IN  IF a <= 127 THEN rest(1)
             ELSE IF a >= 194 /\ a <= 223
                  THEN n >= 2 /\ Cont(s[2]) /\ rest(2)
             ELSE IF a >= 224 /\ a <= 239
                  THEN /\ n >= 3
                       /\ Cont(s[2]) /\ Cont(s[3])
                       /\ (a = 224 => s[2] >= 160)
                       /\ (a = 237 => s[2] <= 159)
                       /\ rest(3)
             ELSE IF a >= 240 /\ a <= 244
                  THEN /\ n >= 4
                       /\ Cont(s[2]) /\ Cont(s[3]) /\ Cont(s[4])
                       /\ (a = 240 => s[2] >= 144)
                       /\ (a = 244 => s[2] <= 143)
                       /\ rest(4)
             ELSE FALSE

-----------------------------------------------------------------------------
(* String literals of the program, as bytes *)

HEADER == <<76, 111, 103, 105, 99, 32, 87, 111, 114, 108, 100, 32, 115, 97, 118, 101>>
FOOTER == <<114, 101, 100, 115, 116, 111, 110, 101, 32, 115, 117, 120, 32, 108, 111, 108>>
MHG_Switch == <<77, 72, 71, 46, 83, 119, 105, 116, 99, 104>>
MHG_Button == <<77, 72, 71, 46, 66, 117, 116, 116, 111, 110>>
MHG_StandingDisplay ==
    <<77, 72, 71, 46, 83, 116, 97, 110, 100, 105, 110, 103, 68, 105, 115, 112, 108, 97, 121>>

-----------------------------------------------------------------------------
(* HashMap: a function on its key set.  HashMap::insert overwrites. *)

EmptyMap == [k \in {} |-> 0]

MapInsert(m, k, v) == [x \in (DOMAIN m) \cup {k} |-> IF x = k THEN v ELSE m[x]]

-----------------------------------------------------------------------------
(* CompMap *)

with_capacity == [k_ids |-> EmptyMap, k_name |-> EmptyMap]

insert(self, id, name) ==
    [k_ids  |-> MapInsert(self.k_ids, id, name),
     k_name |-> MapInsert(self.k_name, name, id)]

\* `self.k_ids.keys().max().unwrap_or(&0) + 1` in u16: a build with overflow
\* checks panics at 65535 + 1, one without wraps to 0.  The outcomes the
\* addition can have, as [panic, id].
new_id(self) ==
    LET m == IF DOMAIN self.k_ids = {} THEN 0 ELSE SetMax(DOMAIN self.k_ids)
    IN  IF m = U16_MAX
        THEN {[panic |-> TRUE, id |-> 0], [panic |-> FALSE, id |-> 0]}
        ELSE {[panic |-> FALSE, id |-> m + 1]}

\* the outcomes of ensure, as [panic, map]
ensure(self, name) ==
    IF name \in DOMAIN self.k_name
    THEN {[panic |-> FALSE, map |-> self]}
    ELSE { [panic |-> n.panic,
            map   |-> IF n.panic THEN self ELSE insert(self, n.id, name)]
           : n \in new_id(self) }

get_id(self, id) ==
    IF id \in DOMAIN self.k_ids
    THEN [err |-> "none", v |-> self.k_ids[id]]
    ELSE [err |-> "missing_id", v |-> <<>>]

get_name(self, name) ==
    IF name \in DOMAIN self.k_name
    THEN [err |-> "none", v |-> self.k_name[name]]
    ELSE [err |-> "missing_id", v |-> 0]

-----------------------------------------------------------------------------
(* Parser.  A parser value p is [file, pos, id_mapping, highest_state_id,  *)
(* err]: pos bytes of file are consumed.  Every reader returns [p, v]; a   *)
(* failed `?` is p.err # "none", which every later reader passes through  *)
(* unchanged, so the first failure is the one parse_save returns.  The     *)
(* err "panic" is a Rust panic (the process aborts, nothing is returned).  *)

Parser_new(save_file) ==
    [file |-> save_file, pos |-> 0, id_mapping |-> with_capacity,
     highest_state_id |-> 0, err |-> "none"]

Ok(p) == p.err = "none"

Fail(p, e) == IF Ok(p) THEN [p EXCEPT !.err = e] ELSE p

\* Vec::with_capacity / HashMap::with_capacity / vec![0u8; n] of `n as usize`:
\* a negative i32 becomes a capacity above isize::MAX, which panics
alloc(p, n) == IF n < 0 THEN Fail(p, "panic") ELSE p

\* self.file.read_exact(&mut buf) on a buffer of N bytes: all N bytes, or the
\* UnexpectedEof error when fewer are left
read_exact(p, N) ==
    IF ~Ok(p) THEN [p |-> p, v |-> <<>>]
    ELSE IF p.pos + N > Len(p.file)
         THEN [p |-> Fail(p, "eof"), v |-> <<>>]
         ELSE [p |-> [p EXCEPT !.pos = @ + N],
               v |-> SubSeq(p.file, p.pos + 1, p.pos + N)]

\* a read that takes the bytes that are left and keeps the zeros the buffer
\* started with, as `read` in place of `read_exact` would
read_n_bytes_lenient(p, N) ==
    IF ~Ok(p) THEN [p |-> p, v |-> <<>>]
    ELSE LET got == IF p.pos + N > Len(p.file) THEN Len(p.file) - p.pos ELSE N
         IN  [p |-> [p EXCEPT !.pos = @ + got],
              v |-> SubSeq(p.file, p.pos + 1, p.pos + got) \o [i \in 1..(N - got) |-> 0]]

read_n_bytes(p, N) == read_exact(p, N)

read_byte(p) ==
    Bind([r \in {read_n_bytes(p, 1)} |->
        [p |-> r.p, v |-> IF Ok(r.p) THEN r.v[1] ELSE 0]])

read_float(p) ==
    Bind([r \in {read_n_bytes(p, 4)} |->
        [p |-> r.p, v |-> IF Ok(r.p) THEN f32_from_le_bytes(r.v) ELSE <<>>]])

read_int(p) ==
    Bind([r \in {read_n_bytes(p, 4)} |->
        [p |-> r.p, v |-> IF Ok(r.p) THEN i32_from_le_bytes(r.v) ELSE 0]])

read_state_id(p) ==
    Bind([r \in {read_int(p)} |->
        [p |-> IF Ok(r.p)
               THEN [r.p EXCEPT !.highest_state_id = Max(@, r.v)]
               ELSE r.p,
         v |-> r.v]])

read_address(p) ==
    Bind([r \in {read_n_bytes(p, 4)} |->
        [p |-> r.p, v |-> IF Ok(r.p) THEN u32_from_le_bytes(r.v) ELSE 0]])

read_id(p) ==
    Bind([r \in {read_n_bytes(p, 2)} |->
        [p |-> r.p, v |-> IF Ok(r.p) THEN u16_from_le_bytes(r.v) ELSE 0]])

read_string(p) ==
    Bind([count \in {read_int(p)} |->
    Bind([data \in {read_exact(alloc(count.p, count.v), count.v)} |->
        IF ~Ok(data.p) THEN [p |-> data.p, v |-> <<>>]
        ELSE IF from_utf8_ok(data.v) THEN data
        ELSE [p |-> Fail(data.p, "utf8"), v |-> <<>>]])])

read_version(p) ==
    Bind([a \in {read_int(p)} |->
    Bind([b \in {read_int(a.p)} |->
    Bind([c \in {read_int(b.p)} |->
    Bind([d \in {read_int(c.p)} |->
        [p |-> d.p, v |-> <<a.v, b.v, c.v, d.v>>]])])])])

validate_save_type(p) ==
    Bind([r \in {read_byte(p)} |->
        IF Ok(r.p) /\ r.v # 1 THEN Fail(r.p, "save_type") ELSE r.p])

validate_version(p) ==
    Bind([r \in {read_byte(p)} |->
        IF Ok(r.p) /\ r.v # 7 THEN Fail(r.p, "version") ELSE r.p])

validate_header(p) ==
    Bind([r \in {read_exact(p, 16)} |->
        IF ~Ok(r.p) THEN r.p
        ELSE IF ~from_utf8_ok(r.v) THEN Fail(r.p, "utf8")
        ELSE IF r.v # HEADER THEN Fail(r.p, "header")
        ELSE r.p])

validate_footer(p) ==
    Bind([r \in {read_exact(p, 16)} |->
        IF ~Ok(r.p) THEN r.p
        ELSE IF ~from_utf8_ok(r.v) THEN Fail(r.p, "utf8")
        ELSE IF r.v # FOOTER THEN Fail(r.p, "footer")
        ELSE r.p])

RECURSIVE read_mod_entries(_, _, _)
read_mod_entries(p, n, mapping) ==
    IF n <= 0 \/ ~Ok(p) THEN [p |-> p, v |-> mapping]
    ELSE Bind([name \in {read_string(p)} |->
         Bind([version \in {read_version(name.p)} |->
             IF ~Ok(version.p) THEN [p |-> version.p, v |-> mapping]
             ELSE read_mod_entries(version.p, n - 1,
                                   MapInsert(mapping, name.v, version.v))])])

read_mod_versions(p) ==
    Bind([count \in {read_int(p)} |->
        read_mod_entries(alloc(count.p, count.v), count.v, EmptyMap)])

RECURSIVE read_comp_entries(_, _)
read_comp_entries(p, n) ==
    IF n <= 0 \/ ~Ok(p) THEN p
    ELSE Bind([id \in {read_id(p)} |->
         Bind([name \in {read_string(id.p)} |->
             IF ~Ok(name.p) THEN name.p
             ELSE read_comp_entries(
                      [name.p EXCEPT !.id_mapping = insert(@, id.v, name.v)], n - 1)])])

read_comp_map(p) ==
    Bind([count \in {read_int(p)} |->
    Bind([a \in {alloc(count.p, count.v)} |->
        IF ~Ok(a) THEN a
        ELSE read_comp_entries([a EXCEPT !.id_mapping = with_capacity], count.v)])])

read_rot(p) ==
    Bind([x \in {read_float(p)} |->
    Bind([y \in {read_float(x.p)} |->
    Bind([z \in {read_float(y.p)} |->
    Bind([w \in {read_float(z.p)} |->
        [p |-> w.p, v |-> <<x.v, y.v, z.v, w.v>>]])])])])

read_pos(p) ==
    Bind([x \in {read_int(p)} |->
    Bind([y \in {read_int(x.p)} |->
    Bind([z \in {read_int(y.p)} |->
        [p |-> z.p, v |-> <<x.v, y.v, z.v>>]])])])

\* the outcome of parse_custom_data: indexing data[0..3] of a shorter vector
\* panics
parse_custom_data(id, data) ==
    IF id = MHG_Switch \/ id = MHG_Button
    THEN IF Len(data) < 4 THEN [panic |-> TRUE, v |-> <<>>]
         ELSE [panic |-> FALSE,
               v |-> [kind  |-> "Switch",
                      color |-> <<data[1], data[2], data[3]>>,
                      on    |-> data[4] # 0]]
    ELSE IF id = MHG_StandingDisplay
    THEN IF Len(data) < 4 THEN [panic |-> TRUE, v |-> <<>>]
         ELSE [panic |-> FALSE,
               v |-> [kind       |-> "Display",
                      color_mode |-> u32_from_le_bytes(SubSeq(data, 1, 4))]]
    ELSE [panic |-> FALSE, v |-> [kind |-> "Unknown", data |-> data]]

RECURSIVE read_state_ids(_, _)
read_state_ids(p, n) ==
    IF n <= 0 \/ ~Ok(p) THEN [p |-> p, v |-> <<>>]
    ELSE LET h == read_state_id(p)
             t == read_state_ids(h.p, n - 1)
         IN  [p |-> t.p, v |-> <<h.v>> \o t.v]

read_component(p) ==
    Bind([address \in {read_address(p)} |->
    Bind([parent \in {read_address(address.p)} |->
    Bind([num \in {read_id(parent.p)} |->
    Bind([id \in {IF Ok(num.p) THEN get_id(num.p.id_mapping, num.v)
                  ELSE [err |-> "none", v |-> <<>>]} |->
    Bind([position \in {read_pos(Fail(num.p, id.err))} |->
    Bind([rotation \in {read_rot(position.p)} |->
    Bind([input_count \in {read_int(rotation.p)} |->
    Bind([inputs \in {read_state_ids(alloc(input_count.p, input_count.v),
                                     input_count.v)} |->
    Bind([output_count \in {read_int(inputs.p)} |->
    Bind([outputs \in {read_state_ids(alloc(output_count.p, input_count.v),
                                      output_count.v)} |->
    Bind([amount \in {read_int(outputs.p)} |->
    Bind([data \in {read_exact(amount.p, Max(amount.v, 0))} |->
    Bind([custom \in {IF Ok(data.p) THEN parse_custom_data(id.v, data.v)
                      ELSE [panic |-> FALSE, v |-> <<>>]} |->
        [p |-> IF custom.panic THEN Fail(data.p, "panic") ELSE data.p,
         v |-> [address     |-> address.v,
                parent      |-> parent.v,
                id          |-> id.v,
                position    |-> position.v,
                rotation    |-> rotation.v,
                inputs      |-> inputs.v,
                outputs     |-> outputs.v,
                custom_data |-> custom.v]]])])])])])])])])])])])])])

read_peg_address(p) ==
    Bind([type_ \in {read_byte(p)} |->
    Bind([component \in {read_address(IF Ok(type_.p) /\ type_.v \notin {1, 2}
                                      THEN Fail(type_.p, "peg_type")
                                      ELSE type_.p)} |->
    Bind([index \in {read_int(component.p)} |->
        [p |-> index.p,
         v |-> [type_     |-> IF type_.v = 1 THEN "Input" ELSE "Output",
                component |-> component.v,
                index     |-> index.v]]])])])

read_wire(p) ==
    Bind([start \in {read_peg_address(p)} |->
    Bind([end \in {read_peg_address(start.p)} |->
    Bind([state_id \in {read_state_id(end.p)} |->
    Bind([rotation \in {read_float(state_id.p)} |->
        [p |-> rotation.p,
         v |-> [start |-> start.v, end |-> end.v,
                state_id |-> state_id.v, rotation |-> rotation.v]]])])])])

RECURSIVE read_components(_, _)
read_components(p, n) ==
    IF n <= 0 \/ ~Ok(p) THEN [p |-> p, v |-> <<>>]
    ELSE LET h == read_component(p)
             t == read_components(h.p, n - 1)
         IN  [p |-> t.p, v |-> <<h.v>> \o t.v]

RECURSIVE read_wires(_, _)
read_wires(p, n) ==
    IF n <= 0 \/ ~Ok(p) THEN [p |-> p, v |-> <<>>]
    ELSE LET h == read_wire(p)
             t == read_wires(h.p, n - 1)
         IN  [p |-> t.p, v |-> <<h.v>> \o t.v]

RECURSIVE read_states(_, _)
read_states(p, n) ==
    IF n <= 0 \/ ~Ok(p) THEN [p |-> p, v |-> <<>>]
    ELSE LET h == read_byte(p)
             t == read_states(h.p, n - 1)
         IN  [p |-> t.p, v |-> <<h.v>> \o t.v]

\* components.iter().map(|comp| comp.address).max().unwrap_or(1)
max_address(components) ==
    IF components = <<>> THEN 1
    ELSE SetMax({components[i].address : i \in 1..Len(components)})

\* parse_save: [err, pos, save]; save is meaningful only when err = "none"
parse_save(save_file) ==
    Bind([game_version \in
             {read_version(validate_version(validate_header(Parser_new(save_file))))} |->
    Bind([num_components \in {read_int(validate_save_type(game_version.p))} |->
    Bind([num_wires \in {read_int(num_components.p)} |->
    Bind([mod_versions \in {read_mod_versions(num_wires.p)} |->
    Bind([components \in {read_components(alloc(read_comp_map(mod_versions.p),
                                                num_components.v),
                                          num_components.v)} |->
    Bind([wires \in {read_wires(alloc(components.p, num_wires.v), num_wires.v)} |->
    Bind([num_states \in {read_int(wires.p)} |->
    Bind([states \in {read_states(alloc(num_states.p, num_states.v),
                                  num_states.v)} |->
    Bind([self \in {validate_footer(states.p)} |->
        [err  |-> self.err,
         pos  |-> self.pos,
         save |-> IF ~Ok(self) THEN [none |-> TRUE]
                  ELSE [game_version     |-> game_version.v,
                        mod_versions     |-> mod_versions.v,
                        comp_map         |-> self.id_mapping,
                        components       |-> components.v,
                        wires            |-> wires.v,
                        states           |-> states.v,
                        highest_state_id |-> self.highest_state_id,
                        highest_address  |-> max_address(components.v)]]])])])])])])])])])

-----------------------------------------------------------------------------
(* Writer.  Every write_* appends to `result` and returns it. *)

write_raw_string(result, data) == result \o data

write_int(result, data) == result \o i32_to_le_bytes(data)

write_address(result, data) == result \o u32_to_le_bytes(data)

write_float(result, data) == result \o f32_to_le_bytes(data)

write_id(result, data) == result \o u16_to_le_bytes(data)

write_string(result, data) == write_int(result, Len(data)) \o data

write_version(result, version) ==
    write_int(write_int(write_int(write_int(result,
        version[1]), version[2]), version[3]), version[4])

\* an opaque payload written as empty
do_customdata_drop(data) ==
    IF data.kind = "Unknown" THEN <<>>
    ELSE IF data.kind = "Display" THEN u32_to_le_bytes(data.color_mode)
    ELSE <<data.color[1], data.color[2], data.color[3], IF data.on THEN 1 ELSE 0>>

do_customdata(data) ==
    IF data.kind = "Unknown" THEN data.data
    ELSE IF data.kind = "Display" THEN u32_to_le_bytes(data.color_mode)
    ELSE <<data.color[1], data.color[2], data.color[3], IF data.on THEN 1 ELSE 0>>

RECURSIVE write_ints(_, _)
write_ints(result, xs) ==
    IF xs = <<>> THEN result
    ELSE write_ints(write_int(result, Head(xs)), Tail(xs))

\* [err, result]
write_component(result, comp, mapping) ==
    LET num == get_name(mapping, comp.id)
        r1  == write_address(result, comp.address)
        r2  == write_address(r1, comp.parent)
        r3  == write_id(r2, num.v)
        r4  == write_int(write_int(write_int(r3,
                   comp.position[1]), comp.position[2]), comp.position[3])
        r5  == write_float(write_float(write_float(write_float(r4,
                   comp.rotation[1]), comp.rotation[2]), comp.rotation[3]),
                   comp.rotation[4])
        r6  == write_ints(write_int(r5, Len(comp.inputs)), comp.inputs)
        r7  == write_ints(write_int(r6, Len(comp.outputs)), comp.outputs)
        custom_data == do_customdata(comp.custom_data)
        r8  == write_int(r7, Len(custom_data)) \o custom_data
    IN  IF num.err # "none" THEN [err |-> num.err, result |-> r2]
        ELSE [err |-> "none", result |-> r8]

write_peg_address(result, address) ==
    LET r1 == result \o (IF address.type_ = "Input" THEN <<1>> ELSE <<2>>)
        r2 == write_address(r1, address.component)
    IN  write_int(r2, address.index)

write_wire(result, wire) ==
    LET r1 == write_peg_address(result, wire.start)
        r2 == write_peg_address(r1, wire.start)
        r3 == write_int(r2, wire.state_id)
    IN  write_float(r3, wire.rotation)

\* the orders in which HashMap::iter can yield the keys of m
iter(m) ==
    LET K == DOMAIN m
    IN  { o \in [1..Cardinality(K) -> K] : \A i, j \in DOMAIN o : i # j => o[i] # o[j] }

RECURSIVE write_mods(_, _, _)
write_mods(result, mod_versions, order) ==
    IF order = <<>> THEN result
    ELSE write_mods(
             write_version(write_string(result, Head(order)), mod_versions[Head(order)]),
             mod_versions, Tail(order))

RECURSIVE write_names(_, _, _)
write_names(result, k_name, order) ==
    IF order = <<>> THEN result
    ELSE write_names(
             write_string(write_id(result, k_name[Head(order)]), Head(order)),
             k_name, Tail(order))

RECURSIVE write_components(_, _, _)
write_components(w, components, mapping) ==
    IF components = <<>> \/ w.err # "none" THEN w
    ELSE write_components(write_component(w.result, Head(components), mapping),
                          Tail(components), mapping)

RECURSIVE write_wires(_, _)
write_wires(result, wires) ==
    IF wires = <<>> THEN result
    ELSE write_wires(write_wire(result, Head(wires)), Tail(wires))

\* Writer::write with the two HashMaps iterated in the given orders: [err, result]
write(s, mod_order, name_order) ==
    LET r1 == write_raw_string(<<>>, HEADER) \o <<7>>
        r2 == write_version(r1, s.game_version) \o <<1>>
        r3 == write_int(write_int(r2, Len(s.components)), Len(s.wires))
        r4 == write_mods(write_int(r3, Cardinality(DOMAIN s.mod_versions)),
                         s.mod_versions, mod_order)
        r5 == write_names(write_int(r4, Cardinality(DOMAIN s.comp_map.k_ids)),
                          s.comp_map.k_name, name_order)
    IN  Bind([w6 \in {write_components([err |-> "none", result |-> r5],
                                       s.components, s.comp_map)} |->
            IF w6.err # "none" THEN w6
            ELSE [err    |-> "none",
                  result |-> write_raw_string(
                                 write_int(write_wires(w6.result, s.wires),
                                           Len(s.states)) \o s.states,
                                 FOOTER)]])

-----------------------------------------------------------------------------
(* SaveFile *)

\* clear_out without `self.wires.clear()`
clear_out_keep_wires(self) ==
    [self EXCEPT !.comp_map = with_capacity,
                 !.components = <<>>,
                 !.highest_state_id = 0,
                 !.highest_address = 1]

clear_out(self) ==
    [self EXCEPT !.comp_map = with_capacity,
                 !.components = <<>>,
                 !.wires = <<>>,
                 !.highest_state_id = 0,
                 !.highest_address = 1]

\* i32 `/ 8`, which truncates toward zero
div8(a) == IF a >= 0 THEN a \div 8 ELSE (a + 7) \div 8

\* the state buffer after the `if` of get_free_state_id
grow(states, highest_state_id) ==
    IF div8(highest_state_id) >= Len(states) THEN Append(states, 0) ELSE states

\* `self.highest_state_id += 1` in i32: a build with overflow checks panics at
\* i32::MAX, one without wraps to i32::MIN.  The outcomes, as [panic, v].
inc_state_id(v) ==
    IF v = I32_MAX
    THEN {[panic |-> TRUE, v |-> v], [panic |-> FALSE, v |-> I32_MIN]}
    ELSE {[panic |-> FALSE, v |-> v + 1]}

\* the outcomes of get_free_state_id, as [panic, self, ret]
get_free_state_id(self) ==
    { [panic |-> n.panic,
       self  |-> IF n.panic THEN self
                 ELSE [self EXCEPT !.highest_state_id = n.v,
                                   !.states = grow(@, n.v)],
       ret   |-> n.v] : n \in inc_state_id(self.highest_state_id) }

\* [self, ret]
get_free_address(self) ==
    [self |-> [self EXCEPT !.highest_address = @ + 1],
     ret  |-> self.highest_address + 1]

-----------------------------------------------------------------------------
(* Bounds of the explored inputs and runs *)

MaxComps == 1
MaxWires == 1
MaxCalls == 2
MaxRuns == 1
MaxGrow == 100

-----------------------------------------------------------------------------
(* The initial file.  An image lists the sections of a file as parse_save  *)
(* reads them; FileBytes lays them out.  Images are not restricted to what *)
(* the Writer produces: the file comes from outside the program.           *)

Peg == <<80, 101, 103>>
Mod == <<77, 111, 100>>

RECURSIVE Flatten(_)
Flatten(ss) == IF ss = <<>> THEN <<>> ELSE Head(ss) \o Flatten(Tail(ss))

Ints(xs) == Flatten([i \in 1..Len(xs) |-> i32_to_le_bytes(xs[i])])

StringBytes(name) == i32_to_le_bytes(Len(name)) \o name

ModBytes(m) == StringBytes(m.name) \o Ints(m.version)

DictBytes(d) == u16_to_le_bytes(d.id) \o StringBytes(d.name)

CompBytes(c) ==
    u32_to_le_bytes(c.address) \o u32_to_le_bytes(c.parent) \o u16_to_le_bytes(c.type)
    \o Ints(c.position) \o Flatten(c.rotation)
    \o i32_to_le_bytes(Len(c.inputs)) \o Ints(c.inputs)
    \o i32_to_le_bytes(Len(c.outputs)) \o Ints(c.outputs)
    \o i32_to_le_bytes(c.amount) \o c.data

PegBytes(a) == <<a.tag>> \o u32_to_le_bytes(a.component) \o i32_to_le_bytes(a.index)

WireBytes(w) ==
    PegBytes(w.start) \o PegBytes(w.end) \o i32_to_le_bytes(w.state_id) \o w.rotation

FileBytes(im) ==
    im.header \o <<im.format>> \o Ints(im.game_version) \o <<im.save_type>>
    \o i32_to_le_bytes(Len(im.comps)) \o i32_to_le_bytes(Len(im.wires))
    \o i32_to_le_bytes(Len(im.mods)) \o Flatten([i \in 1..Len(im.mods) |-> ModBytes(im.mods[i])])
    \o i32_to_le_bytes(Len(im.dict)) \o Flatten([i \in 1..Len(im.dict) |-> DictBytes(im.dict[i])])
    \o Flatten([i \in 1..Len(im.comps) |-> CompBytes(im.comps[i])])
    \o Flatten([i \in 1..Len(im.wires) |-> WireBytes(im.wires[i])])
    \o i32_to_le_bytes(Len(im.states)) \o im.states
    \o im.footer

One == <<0, 0, 128, 63>>
Zero == <<0, 0, 0, 0>>

RawComp(address, parent, type, inputs, outputs, amount, data) ==
    [address |-> address, parent |-> parent, type |-> type,
     position |-> <<150, -100, 450>>, rotation |-> <<Zero, Zero, Zero, One>>,
     inputs |-> inputs, outputs |-> outputs, amount |-> amount, data |-> data]

RawComps ==
    { RawComp(2, 0, 1, <<>>, <<1>>, 4, <<10, 20, 0, 1>>),
      RawComp(7, 2, 2, <<3, 4>>, <<>>, 3, <<1, 255, 0>>),
      RawComp(3, 0, 1, <<>>, <<>>, 0, <<>>),
      RawComp(4, 0, 2, <<-5>>, <<2>>, -1, <<>>),
      RawComp(5, 0, 2, <<>>, <<I32_MAX>>, 5, <<9, 8, 7, 6, 5>>),
      RawComp(6, 0, 9, <<>>, <<>>, 0, <<>>) }

\* the records a cut file is laid out from: each one decodes when it is whole
TruncComps ==
    { RawComp(2, 0, 1, <<>>, <<1>>, 4, <<10, 20, 0, 1>>),
      RawComp(7, 2, 2, <<3, 4>>, <<>>, 3, <<1, 255, 0>>),
      RawComp(4, 0, 2, <<-5>>, <<2>>, -1, <<>>) }

RawPeg(tag, component, index) == [tag |-> tag, component |-> component, index |-> index]

RawWire(start, end, state_id) ==
    [start |-> start, end |-> end, state_id |-> state_id, rotation |-> One]

RawWires ==
    { RawWire(RawPeg(1, 2, 0), RawPeg(2, 7, 1), 9),
      RawWire(RawPeg(2, 2, 0), RawPeg(2, 2, 0), 0),
      RawWire(RawPeg(1, 2, 0), RawPeg(0, 7, 1), 1),
      RawWire(RawPeg(2, 7, 3), RawPeg(1, 2, -1), 100) }

TruncWires ==
    { RawWire(RawPeg(1, 2, 0), RawPeg(2, 7, 1), 9),
      RawWire(RawPeg(2, 7, 3), RawPeg(1, 2, -1), 100) }

Entry(id, name) == [id |-> id, name |-> name]

Dicts ==
    { <<>>,
      <<Entry(1, MHG_Switch), Entry(2, Peg)>>,
      <<Entry(1, MHG_StandingDisplay), Entry(U16_MAX, Peg)>>,
      <<Entry(1, Peg), Entry(1, MHG_Button)>>,
      <<Entry(1, Peg), Entry(2, Peg)>> }

ModLists == { <<>>, <<[name |-> Mod, version |-> <<1, 0, 0, 7>>]>> }

Zeros(n) == [i \in 1..n |-> 0]

StateBufs == { <<>>, <<1>>, Zeros(14) }

SeqsUpTo(S, n) == UNION { [1..k -> S] : k \in 0..n }

World(mods, dict, comps, wires, states) ==
    [header |-> HEADER, format |-> 7, game_version |-> <<0, 6, 1, -1>>,
     save_type |-> 1, mods |-> mods, dict |-> dict, comps |-> comps,
     wires |-> wires, states |-> states, footer |-> FOOTER]

Worlds(MS, DS, CS, WS, SS) ==
    { World(m, d, c, w, st) : m \in MS, d \in DS, c \in CS, w \in WS, st \in SS }

EmptyWorld == World(<<>>, <<>>, <<>>, <<>>, <<>>)

Broken ==
    { [EmptyWorld EXCEPT !.header = [HEADER EXCEPT ![1] = 108]],
      [EmptyWorld EXCEPT !.header = [HEADER EXCEPT ![16] = 255]],
      [EmptyWorld EXCEPT !.format = 6],
      [EmptyWorld EXCEPT !.save_type = 2],
      [EmptyWorld EXCEPT !.footer = [FOOTER EXCEPT ![16] = 33]],
      World(<<[name |-> <<255>>, version |-> <<1, 0, 0, 7>>]>>, <<>>, <<>>, <<>>, <<>>) }

NoSave == [none |-> TRUE]
NoOp == [op |-> "none", arg |-> <<>>]

Start(im, bytes) ==
    /\ image = im
    /\ file = bytes
    /\ stage = "start"
    /\ save = NoSave
    /\ err = "none"
    /\ decoded = NoSave
    /\ written = NoSave
    /\ ids = <<>>
    /\ addrs = <<>>
    /\ cleared = FALSE
    /\ before = NoSave
    /\ last = NoOp
    /\ runs = 0

-----------------------------------------------------------------------------
(* Operations of a run of main: parse_save, then the mutating calls, then  *)
(* Writer::write and fs::write to the same path, which the next run reads. *)

ParseSave ==
    /\ stage \in {"start", "written"}
    /\ \E r \in {parse_save(file)} :
           /\ err' = r.err
           /\ stage' = IF r.err = "none" THEN "loaded"
                       ELSE IF r.err = "panic" THEN "panicked" ELSE "failed"
           /\ save' = r.save
           /\ decoded' = r.save
    /\ ids' = <<>>
    /\ addrs' = <<>>
    /\ cleared' = FALSE
    /\ before' = NoSave
    /\ last' = [op |-> "parse_save", arg |-> <<>>]
    /\ UNCHANGED <<file, written, runs, image>>

ClearOut ==
    /\ stage = "loaded"
    /\ before' = save
    /\ save' = clear_out(save)
    /\ ids' = <<>>
    /\ addrs' = <<>>
    /\ cleared' = TRUE
    /\ last' = [op |-> "clear_out", arg |-> <<>>]
    /\ UNCHANGED <<file, stage, err, decoded, written, runs, image>>

GetFreeStateId(bound) ==
    /\ stage = "loaded"
    /\ Len(ids) < bound
    /\ \E r \in get_free_state_id(save) :
         /\ before' = save
         /\ save' = r.self
         /\ stage' = IF r.panic THEN "panicked" ELSE stage
         /\ err' = IF r.panic THEN "panic" ELSE err
         /\ ids' = IF r.panic THEN ids ELSE Append(ids, r.ret)
    /\ last' = [op |-> "get_free_state_id", arg |-> <<>>]
    /\ UNCHANGED <<file, decoded, written, addrs, cleared, runs, image>>

GetFreeAddress(bound) ==
    /\ stage = "loaded"
    /\ Len(addrs) < bound
    /\ LET r == get_free_address(save)
       IN  /\ before' = save
           /\ save' = r.self
           /\ addrs' = Append(addrs, r.ret)
    /\ last' = [op |-> "get_free_address", arg |-> <<>>]
    /\ UNCHANGED <<file, stage, err, decoded, written, ids, cleared, runs, image>>

Names == {MHG_Button, Peg, Mod}

Ensure(name) ==
    /\ stage = "loaded"
    /\ \E r \in ensure(save.comp_map, name) :
         /\ before' = save
         /\ save' = [save EXCEPT !.comp_map = r.map]
         /\ stage' = IF r.panic THEN "panicked" ELSE stage
         /\ err' = IF r.panic THEN "panic" ELSE err
    /\ last' = [op |-> "ensure", arg |-> name]
    /\ UNCHANGED <<file, decoded, written, ids, addrs, cleared, runs, image>>

Write ==
    /\ stage = "loaded"
    /\ runs < MaxRuns
    /\ \E mo \in iter(save.mod_versions), no \in iter(save.comp_map.k_name) :
         \E w \in {write(save, mo, no)} :
             /\ err' = w.err
             /\ stage' = IF w.err = "none" THEN "written" ELSE "failed"
             /\ file' = IF w.err = "none" THEN w.result ELSE file
    /\ written' = save
    /\ runs' = runs + 1
    /\ before' = save
    /\ last' = [op |-> "write", arg |-> <<>>]
    /\ UNCHANGED <<save, decoded, ids, addrs, cleared, image>>

-----------------------------------------------------------------------------
(* Specifications *)

\* decode, encode, decode again
Init ==
    \E im \in Worlds(ModLists, Dicts, SeqsUpTo(RawComps, MaxComps),
                     SeqsUpTo(RawWires, MaxWires), {<<>>, <<1>>}) \cup Broken :
        Start(im, FileBytes(im))

Next == ParseSave \/ Write

Spec == Init /\ [][Next]_vars

\* decode, then the allocators and clear_out
InitAlloc ==
    \E im \in Worlds(ModLists, {<<Entry(1, MHG_Switch), Entry(2, Peg)>>},
                     SeqsUpTo(RawComps, MaxComps), SeqsUpTo(RawWires, MaxWires),
                     StateBufs) :
        Start(im, FileBytes(im))

NextAlloc ==
    \/ ParseSave
    \/ ClearOut
    \/ GetFreeStateId(MaxCalls)
    \/ GetFreeAddress(MaxCalls)

SpecAlloc == InitAlloc /\ [][NextAlloc]_vars

\* decode, then the type dictionary
InitMap ==
    \E im \in Worlds({<<>>}, Dicts, SeqsUpTo(RawComps, MaxComps), {<<>>}, {<<>>}) :
        Start(im, FileBytes(im))

NextMap ==
    \/ ParseSave
    \/ ClearOut
    \/ \E name \in Names : Ensure(name)

SpecMap == InitMap /\ [][NextMap]_vars

\* decode of a file cut short
InitTrunc ==
    \E im \in Worlds({<<[name |-> Mod, version |-> <<1, 0, 0, 7>>]>>},
                     {<<Entry(1, MHG_Switch), Entry(2, Peg)>>},
                     SeqsUpTo(TruncComps, MaxComps), SeqsUpTo(TruncWires, MaxWires),
                     {<<1>>}) :
        \E cut \in 0..Len(FileBytes(im)) :
            Start(im, SubSeq(FileBytes(im), 1, cut))

NextTrunc == ParseSave

SpecTrunc == InitTrunc /\ [][NextTrunc]_vars

\* decode, clear_out, then a long run of allocations
InitGrow ==
    \E im \in Worlds({<<>>}, {<<>>}, {<<>>}, {<<>>}, StateBufs) :
        Start(im, FileBytes(im))

NextGrow ==
    \/ ParseSave
    \/ ClearOut
    \/ GetFreeStateId(MaxGrow)
    \/ GetFreeAddress(MaxGrow)

SpecGrow == InitGrow /\ [][NextGrow]_vars

-----------------------------------------------------------------------------
(* Properties *)

Known == {MHG_Switch, MHG_Button, MHG_StandingDisplay}

Range(f) == {f[x] : x \in DOMAIN f}

Bijective(m) ==
    /\ \A id \in DOMAIN m.k_ids :
         m.k_ids[id] \in DOMAIN m.k_name /\ m.k_name[m.k_ids[id]] = id
    /\ \A name \in DOMAIN m.k_name :
         m.k_name[name] \in DOMAIN m.k_ids /\ m.k_ids[m.k_name[name]] = name
    /\ Cardinality(DOMAIN m.k_ids) = Cardinality(DOMAIN m.k_name)

KindOf(name) ==
    IF name \in {MHG_Switch, MHG_Button} THEN "Switch"
    ELSE IF name = MHG_StandingDisplay THEN "Display" ELSE "Unknown"

\* a model as the round trip takes it: a bijective dictionary that names every
\* component's type, and each payload in the variant of its type
WellFormed(s) ==
    /\ Bijective(s.comp_map)
    /\ \A i \in 1..Len(s.components) :
         /\ s.components[i].id \in DOMAIN s.comp_map.k_name
         /\ s.components[i].custom_data.kind = KindOf(s.components[i].id)

\* C1: decoding what Writer::write produced from a well-formed model gives the
\* model back, field for field, wires' start and end pegs included.
RoundTrip ==
    (last.op = "parse_save" /\ runs > 0 /\ WellFormed(written))
        => (stage = "loaded" /\ decoded = written)

StateIdsOf(s) ==
    UNION { Range(s.components[i].inputs) \cup Range(s.components[i].outputs)
            : i \in 1..Len(s.components) }
    \cup { s.wires[i].state_id : i \in 1..Len(s.wires) }

\* C2: on a decoded model every allocator call returns; state ids come one
\* after the other, each one more than the one before and above every decoded
\* state id; addresses increase and are above every decoded component's.
FreshIds ==
    (~cleared /\ stage \in {"loaded", "panicked"}) =>
        /\ last.op \in {"get_free_state_id", "get_free_address"} => stage = "loaded"
        /\ \A i \in 2..Len(ids) : ids[i] = ids[i - 1] + 1
        /\ \A i \in 1..Len(ids) : \A sid \in StateIdsOf(decoded) : ids[i] > sid
        /\ \A i \in 2..Len(addrs) : addrs[i] > addrs[i - 1]
        /\ \A i \in 1..Len(addrs) : \A c \in 1..Len(decoded.components) :
               addrs[i] > decoded.components[c].address

\* C3: a file that ends before the footer is complete makes parse_save return
\* the end-of-stream error and no SaveFile; a SaveFile is returned only when
\* the bytes consumed end with the footer.
TruncatedFails ==
    LET whole == parse_save(FileBytes(image))
    IN  /\ (last.op = "parse_save" /\ whole.err = "none" /\ Len(file) < whole.pos)
               => (stage = "failed" /\ err = "eof" /\ save = NoSave)
        /\ stage = "loaded" =>
               /\ Len(file) >= whole.pos
               /\ whole.pos >= 16
               /\ SubSeq(file, whole.pos - 15, whole.pos) = FOOTER

\* a file with a component and a wire, cut inside the wire's rotation
TruncatedSeen ==
    /\ stage = "failed" /\ err = "eof" /\ save = NoSave
    /\ Len(image.comps) = 1 /\ Len(image.wires) = 1
    /\ parse_save(FileBytes(image)).err = "none"
    /\ Len(file) = Len(FileBytes(image)) - 16 - Len(image.states) - 4 - 2

\* C4: a component of a type other than the three known ones decodes to
\* Unknown with exactly the payload bytes of the file, write_component ends
\* with the length and the same bytes, and the next decode gives them back.
Passthrough ==
    /\ (stage = "loaded" /\ runs = 0) =>
         \A i \in 1..Len(save.components) :
            LET c == save.components[i]
                N == Len(image.comps[i].data)
                w == write_component(<<>>, c, save.comp_map)
            IN  c.id \notin Known =>
                  /\ c.custom_data = [kind |-> "Unknown", data |-> image.comps[i].data]
                  /\ w.err = "none"
                  /\ Len(w.result) >= 4 + N
                  /\ SubSeq(w.result, Len(w.result) - N - 3, Len(w.result))
                       = i32_to_le_bytes(N) \o image.comps[i].data
    /\ (stage = "loaded" /\ runs > 0 /\ last.op = "parse_save") =>
         /\ Len(decoded.components) = Len(written.components)
         /\ \A i \in 1..Len(written.components) :
              written.components[i].custom_data.kind = "Unknown" =>
                 decoded.components[i].custom_data = written.components[i].custom_data

PassthroughSeen ==
    /\ stage = "loaded" /\ runs > 0 /\ last.op = "parse_save"
    /\ \E i \in 1..Len(decoded.components) :
         /\ decoded.components[i].custom_data.kind = "Unknown"
         /\ Len(decoded.components[i].custom_data.data) = 5

\* C5: the state buffer of a SaveFile always holds the bit of every state id
\* up to highest_state_id.
StatesCover ==
    stage = "loaded" => save.highest_state_id < 8 * Len(save.states)

\* C6: the two maps of the dictionary pair the same ids with the same names.
Lockstep ==
    stage = "loaded" => Bijective(save.comp_map)

MaxId(m) == IF DOMAIN m.k_ids = {} THEN 0 ELSE SetMax(DOMAIN m.k_ids)

\* C7: ensure(name) returns; it changes nothing when the name is present, and
\* otherwise keeps every pairing and gives the name max + 1, above every id.
EnsureFresh ==
    last.op = "ensure" =>
        LET b == before.comp_map
            a == save.comp_map
        IN  /\ stage = "loaded"
            /\ last.arg \in DOMAIN b.k_name => a = b
            /\ last.arg \notin DOMAIN b.k_name =>
                 /\ \A id \in DOMAIN b.k_ids :
                      id \in DOMAIN a.k_ids /\ a.k_ids[id] = b.k_ids[id]
                 /\ \A n \in DOMAIN b.k_name :
                      n \in DOMAIN a.k_name /\ a.k_name[n] = b.k_name[n]
                 /\ last.arg \in DOMAIN a.k_name
                 /\ a.k_name[last.arg] = MaxId(b) + 1
                 /\ \A id \in DOMAIN b.k_ids : a.k_name[last.arg] > id

\* C8: clear_out keeps game_version and mod_versions and leaves no component,
\* no wire, an empty dictionary, highest_address 1 and highest_state_id 0.
ClearOutFrame ==
    last.op = "clear_out" =>
        /\ save.game_version = before.game_version
        /\ save.mod_versions = before.mod_versions
        /\ save.components = <<>>
        /\ save.wires = <<>>
        /\ DOMAIN save.comp_map.k_ids = {}
        /\ DOMAIN save.comp_map.k_name = {}
        /\ save.highest_address = 1
        /\ save.highest_state_id = 0

ClearOutSeen ==
    /\ last.op = "clear_out"
    /\ before.components # <<>>
    /\ before.wires # <<>>
    /\ DOMAIN before.mod_versions # {}
    /\ DOMAIN before.comp_map.k_ids # {}
    /\ before.highest_address > 2
    /\ before.highest_state_id > 9

\* C9: after clear_out, 100 calls of get_free_state_id return 1..100 and leave
\* a state buffer of 13 bytes; 100 calls of get_free_address return 2..101.
GrowthAfterReset ==
    cleared =>
        /\ Len(ids) = 100 =>
             /\ ids = [i \in 1..100 |-> i]
             /\ Len(save.states) = 13
        /\ Len(addrs) = 100 => addrs = [i \in 1..100 |-> i + 1]

RECURSIVE DictOf(_)
DictOf(entries) ==
    IF entries = <<>> THEN with_capacity
    ELSE LET e == entries[Len(entries)]
         IN  insert(DictOf(SubSeq(entries, 1, Len(entries) - 1)), e.id, e.name)

\* the first component of the file is of a known type and carries fewer than
\* 4 payload bytes
ShortKnown(im) ==
    /\ im.comps # <<>>
    /\ im.comps[1].type \in DOMAIN DictOf(im.dict).k_ids
    /\ DictOf(im.dict).k_ids[im.comps[1].type] \in Known
    /\ Len(im.comps[1].data) < 4

\* C10: a Switch, Button or StandingDisplay with fewer than 4 payload bytes
\* makes parse_save return an error and no SaveFile.
ShortPayloadFails ==
    (last.op = "parse_save" /\ runs = 0 /\ ShortKnown(image))
        => (stage = "failed" /\ save = NoSave)

====
